---- MODULE Spec2Model ----
(***************************************************************************)
(* A model of the tauri-plugin-mcp console bridge:                         *)
(*   src/src/tools/console_capture.rs  (setup / get-js-result /            *)
(*                                      execute-with-console /             *)
(*                                      get-console-buffer)                *)
(*   src/src/tools/direct_eval.rs      (direct-eval)                       *)
(*                                                                         *)
(* The native handlers inject script text into a webview with the host's   *)
(* fire-and-forget `window.eval`; the page runs the injected scripts later *)
(* on its single-threaded event loop.  The model keeps both sides: the     *)
(* handlers as small step machines (one step per host call or await), the  *)
(* window's pending scripts as a FIFO queue, and the page globals the      *)
(* scripts read and write.                                                 *)
(***************************************************************************)
EXTENDS Integers, Sequences, FiniteSets, TLC

(***************************************************************************)
(* Bounds of the model.                                                    *)
(***************************************************************************)
\* Entries a console buffer, and the error buffer, may hold before the model
\* stops appending.
MaxBuf == 3
MaxErrors == 2
\* Distinct readings of the wall clock (SystemTime::now, Date.now).
MaxTime == 2

Times == 1..MaxTime

(***************************************************************************)
(* JavaScript values.  A value is kept as what the scripts observe of it:  *)
(* its `typeof`, its String() form and its JSON.stringify() text.  Text    *)
(* that is searched (console messages, JSON) is a sequence of pieces in    *)
(* which ":" is a piece of its own, so that includes(), indexOf(':') and   *)
(* substring() are computed and not assumed.                               *)
(***************************************************************************)
Undefined == <<>>
Some(x) == <<x>>
Get(o) == o[1]
Null == <<>>
\* `x || []`
OrEmpty(o) == IF o = Undefined THEN <<>> ELSE Get(o)

\* str: the pieces of String(v); json: the pieces of JSON.stringify(v), empty
\* for undefined (which JSON.stringify drops from an object).
JsUndefined == [type |-> "undefined", str |-> <<"undefined">>, json |-> <<>>]
JsNumber(n) == [type |-> "number", str |-> <<ToString(n)>>, json |-> <<ToString(n)>>]
JsString(s) == [type |-> "string", str |-> s, json |-> <<"\"">> \o s \o <<"\"">>]
JsObject(json) == [type |-> "object", str |-> <<"[object Object]">>, json |-> json]

\* new Date().toISOString() at clock reading t; its JSON text keeps the colons.
ToISOString(t) == "2026-11-06T00:00:0" \o ToString(t) \o "Z"
JsonOfISOString(t) == <<"\"2026-11-06T00", ":", "00", ":", "0" \o ToString(t) \o "Z\"">>

RECURSIVE JsonMembers(_)
JsonMembers(fs) ==
    IF fs = <<>> THEN <<>>
    ELSE LET f == Head(fs)
             rest == JsonMembers(Tail(fs))
         IN <<"\"" \o f[1] \o "\"", ":">> \o f[2]
               \o (IF rest = <<>> THEN <<>> ELSE <<",">> \o rest)

\* JSON.stringify of an object given as <<name, json of the value>> pairs; a
\* property whose value is undefined is left out, as JSON.stringify does.
JsonStringify(fs) ==
    <<"{">> \o JsonMembers(SelectSeq(fs, LAMBDA f : f[2] # <<>>)) \o <<"}">>

\* String.prototype.includes: `needle` occurs in `text` as a contiguous run.
Includes(text, needle) ==
    \E i \in 1..(Len(text) - Len(needle) + 1) :
        SubSeq(text, i, i + Len(needle) - 1) = needle

\* String.prototype.indexOf(':'), 1-based; 0 when there is none (JS: -1).
IndexOfColon(text) ==
    IF \E i \in 1..Len(text) : text[i] = ":"
    THEN CHOOSE i \in 1..Len(text) :
            /\ text[i] = ":"
            /\ \A j \in 1..(i - 1) : text[j] # ":"
    ELSE 0

\* message.substring(colonIndex + 1)
SubstringAfter(text, i) == SubSeq(text, i + 1, Len(text))

(***************************************************************************)
(* The page: the globals of the window's document and the two pieces of    *)
(* engine state the shim changes (the console methods, the listeners).     *)
(***************************************************************************)
\* A page as the document leaves it after a load: no global is set.
FreshPage ==
    [ mcpEventConsoleCapture |-> FALSE,
      consoleBuffer          |-> Undefined,
      consoleSessionId       |-> Undefined,
      mcpConsoleMessages     |-> Undefined,
      mcpJSErrors            |-> Undefined,
      mcpLastResult          |-> Undefined,
      mcpLastSearchResult    |-> Undefined,
      mcpBufferData          |-> Undefined,
      \* wrapConsoleMethod layers around each of the five console methods
      consoleWrappers        |-> 0,
      \* listeners the shim added for 'error' and 'unhandledrejection'
      errorListeners         |-> 0,
      rejectionListeners     |-> 0,
      \* __getConsoleBuffer and __clearConsoleBuffer are defined
      accessors              |-> FALSE ]

Levels == {"log", "error", "warn", "info", "debug"}

\* args.map(arg => typeof arg === 'object' ? JSON.stringify(arg) : String(arg))
\*     .join(' ')
RECURSIVE JoinArgs(_)
JoinArgs(args) ==
    IF args = <<>> THEN <<>>
    ELSE LET a == Head(args)
             piece == IF a.type = "object" THEN a.json ELSE a.str
         IN piece \o (IF Tail(args) = <<>> THEN <<>> ELSE <<" ">> \o JoinArgs(Tail(args)))

\* Faulty variant of WrapConsoleMethod: the entry reaches __consoleBuffer only.
WrapConsoleMethodDropsMirror(pg, level, args, t) ==
    LET entry == [ level     |-> level,
                   message   |-> JoinArgs(args),
                   timestamp |-> ToISOString(t),
                   sessionId |-> pg.consoleSessionId ]
    IN [pg EXCEPT !.consoleBuffer = Some(Append(Get(@), entry))]

\* The capturing half of the function wrapConsoleMethod returns, one layer:
\* build the entry, push it to __consoleBuffer and to __mcpConsoleMessages.
WrapConsoleMethod(pg, level, args, t) ==
    LET entry == [ level     |-> level,
                   message   |-> JoinArgs(args),
                   timestamp |-> ToISOString(t),
                   sessionId |-> pg.consoleSessionId ]
        p1 == [pg EXCEPT !.consoleBuffer = Some(Append(Get(@), entry))]
        p2 == IF p1.mcpConsoleMessages = Undefined
              THEN [p1 EXCEPT !.mcpConsoleMessages = Some(<<>>)]
              ELSE p1
    IN [p2 EXCEPT !.mcpConsoleMessages = Some(Append(Get(@), entry))]

\* A call of console[level](...args) on the page.  Each wrapper layer calls
\* the method it wrapped and then captures; with no layer the call reaches
\* the engine's console only.
RECURSIVE CallThrough(_, _, _, _, _)
CallThrough(pg, layers, level, args, t) ==
    IF layers = 0 THEN pg
    ELSE WrapConsoleMethod(CallThrough(pg, layers - 1, level, args, t), level, args, t)

ConsoleCall(pg, level, args, t) ==
    CallThrough(pg, pg.consoleWrappers, level, args, t)

\* Faulty variant of ErrorListener: the place of the error is not kept.
ErrorListenerDropsPlace(pg, event, t) ==
    LET errorInfo == [ message   |-> event.message,
                       filename  |-> Null,
                       lineno    |-> Null,
                       colno     |-> Null,
                       stack     |-> event.stack,
                       timestamp |-> ToISOString(t),
                       sessionId |-> pg.consoleSessionId ]
    IN [pg EXCEPT !.mcpJSErrors = Some(Append(OrEmpty(@), errorInfo))]

\* One 'error' listener of the shim handling one event.
ErrorListener(pg, event, t) ==
    LET errorInfo == [ message   |-> event.message,
                       filename  |-> event.filename,
                       lineno    |-> event.lineno,
                       colno     |-> event.colno,
                       stack     |-> event.stack,
                       timestamp |-> ToISOString(t),
                       sessionId |-> pg.consoleSessionId ]
    IN [pg EXCEPT !.mcpJSErrors = Some(Append(OrEmpty(@), errorInfo))]

\* One 'unhandledrejection' listener of the shim handling one event.
RejectionListener(pg, reason, t) ==
    LET rejectionInfo == [ message   |-> <<"Unhandled Promise Rejection: ">> \o reason.str,
                           filename  |-> Null,
                           lineno    |-> Null,
                           colno     |-> Null,
                           stack     |-> reason.stack,
                           timestamp |-> ToISOString(t),
                           sessionId |-> pg.consoleSessionId ]
    IN [pg EXCEPT !.mcpJSErrors = Some(Append(OrEmpty(@), rejectionInfo))]

\* The engine dispatches an event to every listener that was added.
RECURSIVE DispatchError(_, _, _, _)
DispatchError(pg, n, event, t) ==
    IF n = 0 THEN pg ELSE ErrorListener(DispatchError(pg, n - 1, event, t), event, t)

RECURSIVE DispatchRejection(_, _, _, _)
DispatchRejection(pg, n, reason, t) ==
    IF n = 0 THEN pg
    ELSE RejectionListener(DispatchRejection(pg, n - 1, reason, t), reason, t)

\* Faulty variant of ClearConsoleBufferFn: both console buffers are emptied.
ClearConsoleBufferFnClearsBoth(pg) ==
    [pg EXCEPT !.consoleBuffer = Some(<<>>), !.mcpConsoleMessages = Some(<<>>)]

\* window.__clearConsoleBuffer()
ClearConsoleBufferFn(pg) == [pg EXCEPT !.consoleBuffer = Some(<<>>)]

\* window.__getConsoleBuffer()
GetConsoleBufferFn(pg) == OrEmpty(pg.consoleBuffer)

\* Faulty variant of CaptureCode: the __mcpEventConsoleCapture guard is missing.
CaptureCodeUnguarded(pg, t) ==
    LET p1 == [pg EXCEPT !.mcpEventConsoleCapture = TRUE,
                         !.consoleBuffer = IF @ = Undefined THEN Some(<<>>) ELSE @,
                         !.consoleSessionId = Some(ToString(t)),
                         !.consoleWrappers = @ + 1,
                         !.errorListeners = @ + 1,
                         !.rejectionListeners = @ + 1,
                         !.accessors = TRUE]
    IN ConsoleCall(p1, "log",
                   <<JsString(<<"Event-based console capture system initialized">>)>>, t)

\* What capture_code returns: { already_setup: true } behind the guard,
\* { setup_complete: true, ... } at its end.
CaptureCodeReturns(pg) ==
    IF pg.mcpEventConsoleCapture THEN "already_setup" ELSE "setup_complete"

\* capture_code, the shim script of handle_setup_console_capture.
CaptureCode(pg, t) ==
    IF pg.mcpEventConsoleCapture THEN pg
    ELSE LET p1 == [pg EXCEPT !.mcpEventConsoleCapture = TRUE,
                              !.consoleBuffer = IF @ = Undefined THEN Some(<<>>) ELSE @,
                              !.consoleSessionId = Some(ToString(t)),
                              !.consoleWrappers = @ + 1,
                              !.errorListeners = @ + 1,
                              !.rejectionListeners = @ + 1,
                              !.accessors = TRUE]
         IN ConsoleCall(p1, "log",
                        <<JsString(<<"Event-based console capture system initialized">>)>>, t)

(***************************************************************************)
(* Caller-supplied code.  A snippet is known by its text; what the model   *)
(* keeps of it is what the bridge can observe: the console calls it makes  *)
(* and whether it returns a value or throws an Error.                      *)
(***************************************************************************)
Codes ==
    { "return 1+1",
      "console.warn('low', {a: 1}); return 'ok'",
      "console.error('bad'); throw new Error('boom')" }

\* The console calls the snippet makes, in order, before it ends.
CodeCalls(code) ==
    CASE code = "return 1+1" -> <<>>
      [] code = "console.warn('low', {a: 1}); return 'ok'" ->
            << [level |-> "warn",
                args  |-> <<JsString(<<"low">>), JsObject(<<"{", "\"a\"", ":", "1", "}">>)>>] >>
      [] code = "console.error('bad'); throw new Error('boom')" ->
            << [level |-> "error", args |-> <<JsString(<<"bad">>)>>] >>

\* How the snippet ends.
CodeOutcome(code) ==
    CASE code = "return 1+1" ->
            [threw |-> FALSE, value |-> JsNumber(2), message |-> <<>>, stack |-> <<>>]
      [] code = "console.warn('low', {a: 1}); return 'ok'" ->
            [threw |-> FALSE, value |-> JsString(<<"ok">>), message |-> <<>>, stack |-> <<>>]
      [] code = "console.error('bad'); throw new Error('boom')" ->
            [threw |-> TRUE, value |-> JsUndefined, message |-> <<"boom">>,
             stack |-> <<"Error", ":", " boom at <anonymous>", ":", "1">>]

RECURSIVE RunCalls(_, _, _)
RunCalls(pg, calls, t) ==
    IF calls = <<>> THEN pg
    ELSE RunCalls(ConsoleCall(pg, Head(calls).level, Head(calls).args, t), Tail(calls), t)

\* request.code of handle_execute_with_console, injected verbatim.
CallerCode(pg, code, t) == RunCalls(pg, CodeCalls(code), t)

\* Faulty variant of WrappedCode: a throwing snippet leaves the slot alone.
WrappedCodeKeepsOnThrow(pg, code, t) ==
    LET p1 == CallerCode(pg, code, t)
        out == CodeOutcome(code)
    IN IF ~out.threw
       THEN [p1 EXCEPT !.mcpLastResult =
                Some([ success     |-> TRUE,
                       value       |-> out.value,
                       type        |-> out.value.type,
                       stringValue |-> out.value.str ])]
       ELSE p1

\* wrapped_code of handle_direct_eval: the snippet in a try/catch that stores
\* its outcome in __mcpLastResult.
WrappedCode(pg, code, t) ==
    LET p1 == CallerCode(pg, code, t)
        out == CodeOutcome(code)
    IN IF ~out.threw
       THEN [p1 EXCEPT !.mcpLastResult =
                Some([ success     |-> TRUE,
                       value       |-> out.value,
                       type        |-> out.value.type,
                       stringValue |-> out.value.str ])]
       ELSE [p1 EXCEPT !.mcpLastResult =
                Some([ success |-> FALSE,
                       error   |-> out.message,
                       stack   |-> out.stack ])]

(***************************************************************************)
(* The correlator's scripts (handle_get_js_result) and the dump script     *)
(* (handle_get_console_buffer).                                            *)
(***************************************************************************)
\* format!("mcp_result_{}", millis)
ResultKey(t) == "mcp_result_" \o ToString(t)
Keys == {ResultKey(t) : t \in Times}

\* The global names a request may ask for.  The third is a path under a
\* global that does not exist: reading it throws a TypeError on the page.
\* The last is the shim's own mirror buffer.
VariableNames == {"__mcpLastResult", "__consoleSessionId", "missing.value",
                  "__mcpConsoleMessages"}
DefaultVariableName == "__mcpLastResult"

\* JSON.stringify of what __mcpLastResult holds.
JsonOfLastResult(r) ==
    IF r.success
    THEN JsonStringify(<< <<"success", <<"true">>>>,
                          <<"value", r.value.json>>,
                          <<"type", JsString(<<r.type>>).json>>,
                          <<"stringValue", JsString(r.stringValue).json>> >>)
    ELSE JsonStringify(<< <<"success", <<"false">>>>,
                          <<"error", JsString(r.error).json>>,
                          <<"stack", JsString(r.stack).json>> >>)

\* The clock reading an entry's timestamp was made from.
TimeOf(timestamp) == CHOOSE t \in Times : ToISOString(t) = timestamp

\* JSON.stringify of one console entry.  A message is embedded as a JSON
\* string: its quotes are escaped, its other text (a tag, a colon) is kept.
JsonOfEntry(e) ==
    JsonStringify(<< <<"level", JsString(<<e.level>>).json>>,
                     <<"message", JsString(e.message).json>>,
                     <<"timestamp", JsonOfISOString(TimeOf(e.timestamp))>>,
                     <<"sessionId", IF e.sessionId = Undefined THEN <<>>
                                    ELSE JsString(e.sessionId).json>> >>)

\* JSON.stringify of a list of console entries.
RECURSIVE JsonOfEntryList(_)
JsonOfEntryList(entries) ==
    IF entries = <<>> THEN <<>>
    ELSE JsonOfEntry(Head(entries))
            \o (IF Tail(entries) = <<>> THEN <<>>
                ELSE <<",">> \o JsonOfEntryList(Tail(entries)))
JsonOfEntries(entries) == <<"[">> \o JsonOfEntryList(entries) \o <<"]">>

\* `window.<variable_name>`: the value read, or the TypeError thrown.
ReadGlobal(pg, name) ==
    CASE name = "__mcpLastResult" ->
            [threw |-> FALSE, message |-> <<>>, stack |-> <<>>,
             value |-> IF pg.mcpLastResult = Undefined THEN JsUndefined
                       ELSE JsObject(JsonOfLastResult(Get(pg.mcpLastResult)))]
      [] name = "__consoleSessionId" ->
            [threw |-> FALSE, message |-> <<>>, stack |-> <<>>,
             value |-> IF pg.consoleSessionId = Undefined THEN JsUndefined
                       ELSE JsString(<<Get(pg.consoleSessionId)>>)]
      [] name = "__mcpConsoleMessages" ->
            [threw |-> FALSE, message |-> <<>>, stack |-> <<>>,
             value |-> IF pg.mcpConsoleMessages = Undefined THEN JsUndefined
                       ELSE JsObject(JsonOfEntries(Get(pg.mcpConsoleMessages)))]
      [] name = "missing.value" ->
            [threw |-> TRUE, value |-> JsUndefined,
             message |-> <<"Cannot read properties of undefined (reading 'value')">>,
             stack |-> <<"TypeError", ":", " Cannot read properties of undefined">>]

SuccessTag(key) == <<"MCP_RETRIEVE_SUCCESS_" \o key, ":">>
ErrorTag(key) == <<"MCP_RETRIEVE_ERROR_" \o key, ":">>

\* What the tag script hands to console.log.
RetrieveMessage(pg, name, key, t) ==
    LET read == ReadGlobal(pg, name)
    IN IF ~read.threw
       THEN SuccessTag(key) \o
            JsonStringify(<< <<"success", <<"true">>>>,
                             <<"value", read.value.json>>,
                             <<"type", JsString(<<read.value.type>>).json>>,
                             <<"timestamp", JsonOfISOString(t)>> >>)
       ELSE ErrorTag(key) \o
            JsonStringify(<< <<"success", <<"false">>>>,
                             <<"error", JsString(read.message).json>>,
                             <<"stack", JsString(read.stack).json>>,
                             <<"timestamp", JsonOfISOString(t)>> >>)

\* Faulty variant of RetrieveCode: the record is logged without its tag.
RetrieveCodeUntagged(pg, name, key, t) ==
    LET message == RetrieveMessage(pg, name, key, t)
    IN ConsoleCall(pg, "log", <<JsString(SubSeq(message, 3, Len(message)))>>, t)

\* retrieve_code, the tag script: read the global, log the tagged record.
RetrieveCode(pg, name, key, t) ==
    ConsoleCall(pg, "log", <<JsString(RetrieveMessage(pg, name, key, t))>>, t)

\* Faulty variant of SearchHit: the loop runs from the oldest entry.
SearchHitOldest(pg, key) ==
    LET messages == OrEmpty(pg.mcpConsoleMessages)
        hits == { i \in 1..Len(messages) :
                    /\ \/ Includes(messages[i].message, SuccessTag(key))
                       \/ Includes(messages[i].message, ErrorTag(key))
                    /\ IndexOfColon(messages[i].message) # 0 }
    IN IF hits = {} THEN 0 ELSE CHOOSE i \in hits : \A j \in hits : i <= j

\* The index the search loop stops at: the last entry of __mcpConsoleMessages
\* whose message includes either tag and has a colon; 0 when no entry does.
SearchHit(pg, key) ==
    LET messages == OrEmpty(pg.mcpConsoleMessages)
        hits == { i \in 1..Len(messages) :
                    /\ \/ Includes(messages[i].message, SuccessTag(key))
                       \/ Includes(messages[i].message, ErrorTag(key))
                    /\ IndexOfColon(messages[i].message) # 0 }
    IN IF hits = {} THEN 0 ELSE CHOOSE i \in hits : \A j \in hits : j <= i

NotFoundError == <<"Message not found in buffer">>

\* Faulty variant of SearchCode: the data starts at the tag, not after the colon.
SearchCodeKeepsTag(pg, key, t) ==
    LET hit == SearchHit(pg, key)
    IN IF hit # 0
       THEN LET message == Get(pg.mcpConsoleMessages)[hit].message
            IN [pg EXCEPT !.mcpLastSearchResult =
                   Some([ found     |-> TRUE,
                          data      |-> message,
                          timestamp |-> ToISOString(t) ])]
       ELSE [pg EXCEPT !.mcpLastSearchResult =
                Some([ found     |-> FALSE,
                       error     |-> NotFoundError,
                       timestamp |-> ToISOString(t) ])]

\* Faulty variant of SearchCode: a search that finds nothing leaves the slot
\* as it was.
SearchCodeKeepsOnMiss(pg, key, t) ==
    LET hit == SearchHit(pg, key)
    IN IF hit # 0
       THEN LET message == Get(pg.mcpConsoleMessages)[hit].message
                colonIndex == IndexOfColon(message)
            IN [pg EXCEPT !.mcpLastSearchResult =
                   Some([ found     |-> TRUE,
                          data      |-> SubstringAfter(message, colonIndex),
                          timestamp |-> ToISOString(t) ])]
       ELSE pg

\* search_code, the search script.
SearchCode(pg, key, t) ==
    LET hit == SearchHit(pg, key)
    IN IF hit # 0
       THEN LET message == Get(pg.mcpConsoleMessages)[hit].message
                colonIndex == IndexOfColon(message)
            IN [pg EXCEPT !.mcpLastSearchResult =
                   Some([ found     |-> TRUE,
                          data      |-> SubstringAfter(message, colonIndex),
                          timestamp |-> ToISOString(t) ])]
       ELSE [pg EXCEPT !.mcpLastSearchResult =
                Some([ found     |-> FALSE,
                       error     |-> NotFoundError,
                       timestamp |-> ToISOString(t) ])]

\* get_result_code, the fetch script: it only computes a string the host
\* call does not hand back.
GetResultCode(pg) == pg

\* Faulty variant of BufferCode: lastSearchResult is left null.
BufferCodeDropsSearch(pg) ==
    [pg EXCEPT !.mcpBufferData =
        Some([ consoleBuffer    |-> OrEmpty(pg.consoleBuffer),
               mcpMessages      |-> OrEmpty(pg.mcpConsoleMessages),
               jsErrors         |-> OrEmpty(pg.mcpJSErrors),
               lastSearchResult |-> Null,
               bufferLength     |-> Len(OrEmpty(pg.consoleBuffer)),
               mcpLength        |-> Len(OrEmpty(pg.mcpConsoleMessages)),
               errorCount       |-> Len(OrEmpty(pg.mcpJSErrors)) ])]

\* Faulty variant of BufferCode: the dump consumes the search result.
BufferCodeConsumes(pg) ==
    [pg EXCEPT !.mcpBufferData =
                  Some([ consoleBuffer    |-> OrEmpty(pg.consoleBuffer),
                         mcpMessages      |-> OrEmpty(pg.mcpConsoleMessages),
                         jsErrors         |-> OrEmpty(pg.mcpJSErrors),
                         lastSearchResult |-> pg.mcpLastSearchResult,
                         bufferLength     |-> Len(OrEmpty(pg.consoleBuffer)),
                         mcpLength        |-> Len(OrEmpty(pg.mcpConsoleMessages)),
                         errorCount       |-> Len(OrEmpty(pg.mcpJSErrors)) ]),
               !.mcpLastSearchResult = Undefined]

\* buffer_code, the dump script.  The page holds the three arrays by
\* reference; the record keeps what they held when the script ran.
BufferCode(pg) ==
    [pg EXCEPT !.mcpBufferData =
        Some([ consoleBuffer    |-> OrEmpty(pg.consoleBuffer),
               mcpMessages      |-> OrEmpty(pg.mcpConsoleMessages),
               jsErrors         |-> OrEmpty(pg.mcpJSErrors),
               lastSearchResult |-> pg.mcpLastSearchResult,
               bufferLength     |-> Len(OrEmpty(pg.consoleBuffer)),
               mcpLength        |-> Len(OrEmpty(pg.mcpConsoleMessages)),
               errorCount       |-> Len(OrEmpty(pg.mcpJSErrors)) ])]

(***************************************************************************)
(* The native side: requests, their payloads and their responses.          *)
(***************************************************************************)
\* Requests issued in one run of the bridge, and in one run of a retrieval
\* session (setup, get-js-result, get-console-buffer).
MaxRequests == 2
MaxRetrievals == 3

RequestIds == 1..(IF MaxRequests > MaxRetrievals THEN MaxRequests ELSE MaxRetrievals)

Ops == {"setup_console_capture", "get_js_result", "execute_with_console",
        "get_console_buffer", "direct_eval"}

\* Window labels a request may name; the host has one webview, "main".
Labels == {"main", "ghost"}
DefaultLabel == "main"

\* What the host reports when window.eval fails.
HostErrors == {"webview is gone"}

\* A payload as serde sees it: `valid` is whether it deserializes into the
\* operation's request struct; the fields are the struct's.
\* A payload of the wrong shape; nothing is read from it.
BadPayload ==
    [valid |-> FALSE, window_label |-> Undefined, variable_name |-> Undefined,
     code |-> Undefined]

\* The well-shaped payloads of an operation, with the variable names and
\* the snippets drawn from `names` and `codes`.
GoodPayloads(op, labels, names, codes) ==
    [ valid         : {TRUE},
      window_label  : labels,
      variable_name : IF op = "get_js_result" THEN names ELSE {Undefined},
      code          : IF op \in {"execute_with_console", "direct_eval"}
                      THEN {Some(c) : c \in codes}
                      ELSE {Undefined} ]

AnyLabel == {Undefined} \cup {Some(l) : l \in Labels}
NamedGlobals == {Some("__consoleSessionId"), Some("missing.value")}

\* request.window_label.unwrap_or_else(|| "main".to_string())
WindowLabel(payload) ==
    IF payload.window_label = Undefined THEN DefaultLabel ELSE Get(payload.window_label)

\* request.variable_name.unwrap_or_else(|| "__mcpLastResult".to_string())
VariableName(payload) ==
    IF payload.variable_name = Undefined THEN DefaultVariableName
    ELSE Get(payload.variable_name)

\* Err(e): the handler returned an error.
Failure(message) == [kind |-> "Err", error |-> message]
\* Ok(SocketResponse { success: true, data: Some(..), error: None })
SocketResponse(data) == [kind |-> "Ok", success |-> TRUE, data |-> Some(data), error |-> Null]
\* Ok(json!(DirectEvalResponse { .. }))
DirectEvalResponse(success, result, error) ==
    [kind |-> "Ok", success |-> success, result |-> result, error |-> error]

InvalidRequest(op) ==
    IF op = "direct_eval" THEN Failure(<<"missing field or invalid type">>)
    ELSE Failure(<<"Invalid request format: ", "missing field or invalid type">>)
WindowNotFound(label) == Failure(<<"Window '", label, "' not found">>)

SetupResponse(label) ==
    SocketResponse([message |-> "Event-based console capture setup complete",
                    window_label |-> label])
GetJsResultResponse(name, key) ==
    SocketResponse([message |-> "JavaScript result retrieval executed - check console buffer with get_console_buffer",
                    variable_name |-> name,
                    result_key |-> key,
                    approach |-> "console_buffer_search",
                    next_step |-> "Use get_console_buffer to retrieve the actual data"])
ExecuteResponse(label) ==
    SocketResponse([message |-> "JavaScript executed with event-based console capture",
                    window_label |-> label])
BufferResponse(label) ==
    SocketResponse([message |-> "Console buffer compiled to window.__mcpBufferData",
                    window_label |-> label,
                    note |-> "Access window.__mcpBufferData.lastSearchResult for retrieved data"])
DirectEvalStored ==
    <<"Code executed successfully. Result stored in window.__mcpLastResult">>

\* An injected script: its kind, what was spliced into it, and the request
\* that injected it.
Script(kind, key, name, code, id) ==
    [kind |-> kind, key |-> key, name |-> name, code |-> code, id |-> id]

\* The task of a request that has not been issued, or whose response the
\* operator has taken.
IdleTask ==
    [ pc |-> "idle", id |-> 0, op |-> "none",
      payload |-> [valid |-> TRUE, window_label |-> Undefined,
                   variable_name |-> Undefined, code |-> Undefined],
      key |-> "", response |-> Undefined, setup_result |-> Undefined,
      \* history: what each get_webview_window call found, and each
      \* window.eval call with whether the host accepted the script
      lookups |-> <<>>, evals |-> <<>> ]

VARIABLES
    page,       \* the globals of the "main" window's document
    queue,      \* scripts window.eval accepted that the page has not run yet
    live,       \* whether the host still has the "main" window
    task,       \* per request, its handler task
    issued,     \* requests issued so far
    now,        \* the last reading of the wall clock
    hist        \* history variables, read by the properties only

vars == <<page, queue, live, task, issued, now, hist>>

\* What the wall clock (SystemTime::now, Date.now, new Date) may read at the
\* next step that runs a handler statement or page code: it does not step
\* back during a run, and two readings may be equal.
Readings == {t \in Times : t >= now}

NoSearch == [id |-> 0, key |-> "", wrote |-> Undefined, logged |-> Undefined,
             tagged |-> FALSE]

NoHistory ==
    [ \* `dump`, a get-console-buffer request, was issued right after the
      \* response to `search`, a get-js-result request that succeeded, with
      \* no request in between (0, 0 when the last request was not)
      serial |-> [dump |-> 0, search |-> 0],
      \* the shim script: how often it ran, the session id its first run
      \* assigned, what its last run returned, whether a later run changed
      \* the page
      setup |-> [runs |-> 0, session |-> Undefined, returned |-> "", changed |-> FALSE],
      \* __clearConsoleBuffer has been called
      cleared |-> FALSE,
      \* per key: the request and the message of the last tag script of that
      \* key whose console.log was captured
      logged |-> [k \in Keys |-> Undefined],
      \* the search script that ran last: its request, its key, what it
      \* wrote, what `logged` held for its key, whether an entry of
      \* __mcpConsoleMessages carried one of its tags
      search |-> NoSearch,
      \* the dump script that ran last: its request, and the search script
      \* that had run last by then
      dump |-> [id |-> 0, search |-> NoSearch],
      \* an error or rejection event changed a console buffer
      disturbed |-> FALSE,
      \* the snippets of the direct-eval wrappers that ran, in order
      wrapped |-> <<>>,
      \* the error and rejection events dispatched while the shim listened
      events |-> <<>>,
      \* the keys get-js-result requests have generated, and whether one
      \* generated a key an earlier one had
      used |-> {},
      collided |-> FALSE,
      \* the get-js-result requests that were in progress together with
      \* another one
      overlapped |-> {},
      \* the get-console-buffer request issued last, and the get-js-result
      \* requests that had been answered with success by then
      answered |-> [dump |-> 0, requests |-> {}] ]

Init ==
    /\ page = FreshPage
    /\ queue = <<>>
    /\ live = TRUE
    /\ task = [r \in RequestIds |-> IdleTask]
    /\ issued = 0
    /\ now = 1
    /\ hist = NoHistory

(***************************************************************************)
(* The handlers, one action per step: parse, window lookup, each           *)
(* window.eval, each sleep.                                                *)
(***************************************************************************)
Succeeded(response) == response.kind = "Ok" /\ response.success

\* Task r goes on as `tk`.
Becomes(r, tk) ==
    /\ task' = [task EXCEPT ![r] = tk]
    /\ UNCHANGED hist

Ended(tk, response) == [tk EXCEPT !.pc = "done", !.response = Some(response)]
Noted(tk, kind, ok) == [tk EXCEPT !.evals = Append(@, [kind |-> kind, ok |-> ok])]

\* window.eval(script) returned Ok: the script is pending on the page.
Accepted(script) ==
    /\ live
    /\ queue' = Append(queue, script)

\* Faulty variant of FirstPhase: get-js-result starts with its search.
FirstPhaseSearchFirst(op) ==
    CASE op = "setup_console_capture" -> "eval_capture"
      [] op = "get_js_result"         -> "eval_search"
      [] op = "execute_with_console"  -> "setup_lookup"
      [] op = "get_console_buffer"    -> "eval_buffer"
      [] op = "direct_eval"           -> "eval_wrapped"

\* The pc a handler starts its work at, once the window is found.
FirstPhase(op) ==
    CASE op = "setup_console_capture" -> "eval_capture"
      [] op = "get_js_result"         -> "eval_retrieve"
      [] op = "execute_with_console"  -> "setup_lookup"
      [] op = "get_console_buffer"    -> "eval_buffer"
      [] op = "direct_eval"           -> "eval_wrapped"

\* The socket server hands the next request to its handler; the responses
\* that were ready have been taken.
Submit(op, payload) ==
    /\ issued + 1 \in RequestIds
    /\ issued' = issued + 1
    /\ task' = [r \in RequestIds |->
                  IF r = issued + 1
                  THEN [IdleTask EXCEPT !.pc = "parse", !.id = r,
                                        !.op = op, !.payload = payload]
                  ELSE IF task[r].pc = "done" THEN IdleTask ELSE task[r]]
    /\ hist' = [hist EXCEPT !.serial =
                  IF /\ op = "get_console_buffer"
                     /\ issued > 0
                     /\ \A r \in RequestIds : task[r].pc \in {"idle", "done"}
                     /\ task[issued].pc = "done"
                     /\ task[issued].op = "get_js_result"
                     /\ Succeeded(Get(task[issued].response))
                  THEN [dump |-> issued + 1, search |-> issued]
                  ELSE [dump |-> 0, search |-> 0],
                             !.overlapped =
                  LET others == {r \in RequestIds : /\ task[r].op = "get_js_result"
                                                    /\ task[r].pc \notin {"idle", "done"}}
                  IN IF op = "get_js_result" /\ others # {}
                     THEN @ \cup others \cup {issued + 1}
                     ELSE @,
                             !.answered =
                  IF op = "get_console_buffer"
                  THEN [dump |-> issued + 1,
                        requests |-> {task[r].id : r \in
                                        {q \in RequestIds : /\ task[q].op = "get_js_result"
                                                            /\ task[q].pc = "done"
                                                            /\ Succeeded(Get(task[q].response))}}]
                  ELSE @]
    /\ UNCHANGED <<page, queue, live, now>>

\* Faulty variant of Parsed: the payload's shape is not checked.
ParsedUnchecked(tk) == [tk EXCEPT !.pc = "lookup"]

\* serde_json::from_value(payload), the first statement of every handler.
Parsed(tk) ==
    IF tk.payload.valid THEN [tk EXCEPT !.pc = "lookup"]
    ELSE Ended(tk, InvalidRequest(tk.op))

ParsePayload(r) ==
    /\ task[r].pc = "parse"
    /\ Becomes(r, Parsed(task[r]))
    /\ UNCHANGED <<page, queue, live, issued, now>>

\* app.get_webview_window(&window_label)
Resolves(label) == label = "main" /\ live

\* get_webview_window(..).ok_or_else(|| "Window '..' not found")?
Looked(tk, found) ==
    IF found THEN [tk EXCEPT !.lookups = Append(@, found), !.pc = FirstPhase(tk.op)]
    ELSE Ended([tk EXCEPT !.lookups = Append(@, found)],
               WindowNotFound(WindowLabel(tk.payload)))

GetWebviewWindow(r) ==
    /\ task[r].pc = "lookup"
    /\ Becomes(r, Looked(task[r], Resolves(WindowLabel(task[r].payload))))
    /\ UNCHANGED <<page, queue, live, issued, now>>

\* Faulty variant of EvalFailed: the handler tries the same call again.
EvalFailedRetries(tk, kind, message) == Noted(tk, kind, FALSE)

\* window.eval(..).map_err(|e| Error::Anyhow(format!("..: {}", e)))?
EvalFailed(tk, kind, message) == Ended(Noted(tk, kind, FALSE), Failure(message))

\* handle_setup_console_capture: window.eval(capture_code)
EvalCapture(r) ==
    /\ task[r].pc = "eval_capture"
    /\ \/ /\ Accepted(Script("capture", "", "", "", task[r].id))
          /\ Becomes(r, Ended(Noted(task[r], "capture", TRUE),
                              SetupResponse(WindowLabel(task[r].payload))))
       \/ \E e \in HostErrors :
            /\ Becomes(r, EvalFailed(task[r], "capture",
                                     <<"Failed to setup console capture: ", e>>))
            /\ UNCHANGED queue
    /\ UNCHANGED <<page, live, issued, now>>

\* handle_get_js_result: the key is made, then window.eval(&retrieve_code)
EvalRetrieve(r) ==
    /\ task[r].pc = "eval_retrieve"
    /\ \E t \in Readings :
         LET tk == [task[r] EXCEPT !.key = ResultKey(t)]
         IN /\ now' = t
            /\ hist' = [hist EXCEPT !.used = @ \cup {tk.key},
                                    !.collided = @ \/ tk.key \in hist.used]
            /\ \/ /\ Accepted(Script("retrieve", tk.key, VariableName(tk.payload), "", tk.id))
                  /\ task' = [task EXCEPT ![r] =
                                [Noted(tk, "retrieve", TRUE) EXCEPT !.pc = "sleep_100"]]
               \/ \E e \in HostErrors :
                    /\ task' = [task EXCEPT ![r] =
                                  EvalFailed(tk, "retrieve",
                                     <<"Failed to execute retrieval JavaScript: ", e>>)]
                    /\ UNCHANGED queue
    /\ UNCHANGED <<page, live, issued>>

\* tokio::time::sleep(Duration::from_millis(100)).await
Sleep100(r) ==
    /\ task[r].pc = "sleep_100"
    /\ Becomes(r, [task[r] EXCEPT !.pc = "eval_search"])
    /\ UNCHANGED <<page, queue, live, issued, now>>

\* handle_get_js_result: window.eval(&search_code)
EvalSearch(r) ==
    /\ task[r].pc = "eval_search"
    /\ \/ /\ Accepted(Script("search", task[r].key, "", "", task[r].id))
          /\ Becomes(r, [Noted(task[r], "search", TRUE) EXCEPT !.pc = "sleep_50"])
       \/ \E e \in HostErrors :
            /\ Becomes(r, EvalFailed(task[r], "search",
                                     <<"Failed to execute search JavaScript: ", e>>))
            /\ UNCHANGED queue
    /\ UNCHANGED <<page, live, issued, now>>

\* Faulty variant of Sleep50: the handler waits until the page has run every
\* pending script instead of waiting for a fixed time.
Sleep50WaitsForPage(r) ==
    /\ task[r].pc = "sleep_50"
    /\ queue = <<>>
    /\ Becomes(r, [task[r] EXCEPT !.pc = "eval_get_result"])
    /\ UNCHANGED <<page, queue, live, issued, now>>

\* tokio::time::sleep(Duration::from_millis(50)).await, before the fetch
Sleep50(r) ==
    /\ task[r].pc = "sleep_50"
    /\ Becomes(r, [task[r] EXCEPT !.pc = "eval_get_result"])
    /\ UNCHANGED <<page, queue, live, issued, now>>

\* handle_get_js_result: window.eval(get_result_code), then the response
EvalGetResult(r) ==
    /\ task[r].pc = "eval_get_result"
    /\ \/ /\ Accepted(Script("get_result", "", "", "", task[r].id))
          /\ Becomes(r, Ended(Noted(task[r], "get_result", TRUE),
                              GetJsResultResponse(VariableName(task[r].payload),
                                                  task[r].key)))
       \/ \E e \in HostErrors :
            /\ Becomes(r, EvalFailed(task[r], "get_result",
                                     <<"Failed to get search result: ", e>>))
            /\ UNCHANGED queue
    /\ UNCHANGED <<page, live, issued, now>>

\* handle_get_console_buffer: window.eval(buffer_code)
EvalBuffer(r) ==
    /\ task[r].pc = "eval_buffer"
    /\ \/ /\ Accepted(Script("buffer", "", "", "", task[r].id))
          /\ Becomes(r, [Noted(task[r], "buffer", TRUE) EXCEPT !.pc = "sleep_buffer"])
       \/ \E e \in HostErrors :
            /\ Becomes(r, EvalFailed(task[r], "buffer",
                                     <<"Failed to compile buffer data: ", e>>))
            /\ UNCHANGED queue
    /\ UNCHANGED <<page, live, issued, now>>

\* handle_get_console_buffer: the 50 ms sleep, then the response
SleepBuffer(r) ==
    /\ task[r].pc = "sleep_buffer"
    /\ Becomes(r, Ended(task[r], BufferResponse(WindowLabel(task[r].payload))))
    /\ UNCHANGED <<page, queue, live, issued, now>>

\* Faulty variant of SetupFailed: the handler carries on to the caller's code.
SetupFailedIgnored(tk, failure) ==
    [tk EXCEPT !.setup_result = Some(failure), !.pc = "eval_code"]

\* `handle_setup_console_capture(app, ..).await?` in
\* handle_execute_with_console: the setup's error is returned as it is.
SetupFailed(tk, failure) ==
    Ended([tk EXCEPT !.setup_result = Some(failure)], failure)

\* handle_setup_console_capture called by handle_execute_with_console: its
\* own window lookup (its payload, built by the caller, always parses).
SetupLooked(tk, found) ==
    IF found THEN [tk EXCEPT !.lookups = Append(@, found), !.pc = "setup_eval"]
    ELSE SetupFailed([tk EXCEPT !.lookups = Append(@, found)],
                     WindowNotFound(WindowLabel(tk.payload)))

SetupLookup(r) ==
    /\ task[r].pc = "setup_lookup"
    /\ Becomes(r, SetupLooked(task[r], Resolves(WindowLabel(task[r].payload))))
    /\ UNCHANGED <<page, queue, live, issued, now>>

\* Faulty variant of SetupEval: the setup reports success without handing
\* the shim to the window.
SetupEvalSkipsInjection(r) ==
    /\ task[r].pc = "setup_eval"
    /\ Becomes(r, [Noted(task[r], "capture", TRUE) EXCEPT
                      !.setup_result = Some(SetupResponse(WindowLabel(task[r].payload))),
                      !.pc = "eval_code"])
    /\ UNCHANGED <<page, queue, live, issued, now>>

\* ... and its window.eval(capture_code)
SetupEval(r) ==
    /\ task[r].pc = "setup_eval"
    /\ \/ /\ Accepted(Script("capture", "", "", "", task[r].id))
          /\ Becomes(r, [Noted(task[r], "capture", TRUE) EXCEPT
                            !.setup_result = Some(SetupResponse(WindowLabel(task[r].payload))),
                            !.pc = "eval_code"])
       \/ \E e \in HostErrors :
            /\ Becomes(r, SetupFailed(Noted(task[r], "capture", FALSE),
                             Failure(<<"Failed to setup console capture: ", e>>)))
            /\ UNCHANGED queue
    /\ UNCHANGED <<page, live, issued, now>>

\* handle_execute_with_console: `if !setup_result.success { return
\* Ok(setup_result) }`, then window.eval(&request.code)
EvalCode(r) ==
    /\ task[r].pc = "eval_code"
    /\ IF /\ Get(task[r].setup_result).kind = "Ok"
          /\ ~Get(task[r].setup_result).success
       THEN /\ Becomes(r, Ended(task[r], Get(task[r].setup_result)))
            /\ UNCHANGED queue
       ELSE \/ /\ Accepted(Script("code", "", "", Get(task[r].payload.code), task[r].id))
               /\ Becomes(r, Ended(Noted(task[r], "code", TRUE),
                                   ExecuteResponse(WindowLabel(task[r].payload))))
            \/ \E e \in HostErrors :
                 /\ Becomes(r, EvalFailed(task[r], "code",
                                          <<"Failed to execute JavaScript: ", e>>))
                 /\ UNCHANGED queue
    /\ UNCHANGED <<page, live, issued, now>>

\* Faulty variant of DirectEvalFailed: the host's error is thrown to the caller.
DirectEvalFailedThrows(tk, e) == Ended(tk, Failure(<<"Eval error: ", e>>))

\* handle_direct_eval, the Err(e) arm of `match window.eval(&wrapped_code)`
DirectEvalFailed(tk, e) ==
    Ended(tk, DirectEvalResponse(FALSE, Null, Some(<<"Eval error: ", e>>)))

\* handle_direct_eval: window.eval(&wrapped_code) and the response
EvalWrapped(r) ==
    /\ task[r].pc = "eval_wrapped"
    /\ \/ /\ Accepted(Script("wrapped", "", "", Get(task[r].payload.code), task[r].id))
          /\ Becomes(r, Ended(Noted(task[r], "wrapped", TRUE),
                              DirectEvalResponse(TRUE, Some(DirectEvalStored), Null)))
       \/ \E e \in HostErrors :
            /\ Becomes(r, DirectEvalFailed(Noted(task[r], "wrapped", FALSE), e))
            /\ UNCHANGED queue
    /\ UNCHANGED <<page, live, issued, now>>

(***************************************************************************)
(* The page's side: it runs the pending scripts in the order the host      *)
(* accepted them, and its own code and events happen in between.           *)
(***************************************************************************)
\* What running one injected script does to the page.
Execute(pg, s, t) ==
    CASE s.kind = "capture"    -> CaptureCode(pg, t)
      [] s.kind = "retrieve"   -> RetrieveCode(pg, s.name, s.key, t)
      [] s.kind = "search"     -> SearchCode(pg, s.key, t)
      [] s.kind = "get_result" -> GetResultCode(pg)
      [] s.kind = "buffer"     -> BufferCode(pg)
      [] s.kind = "wrapped"    -> WrappedCode(pg, s.code, t)
      [] s.kind = "code"       -> CallerCode(pg, s.code, t)

\* The model stops appending to a console buffer that holds MaxBuf entries
\* and to an error buffer that holds MaxErrors.
WithinBounds(pg) ==
    /\ Len(OrEmpty(pg.consoleBuffer)) <= MaxBuf
    /\ Len(OrEmpty(pg.mcpConsoleMessages)) <= MaxBuf
    /\ Len(OrEmpty(pg.mcpJSErrors)) <= MaxErrors

\* The history after script s ran at time t on page pg, giving page new.
Recorded(h, s, pg, new, t) ==
    CASE s.kind = "capture" ->
            [h EXCEPT !.setup =
                [ runs     |-> IF @.runs < 2 THEN @.runs + 1 ELSE 2,
                  session  |-> IF @.runs = 0 THEN new.consoleSessionId ELSE @.session,
                  returned |-> CaptureCodeReturns(pg),
                  changed  |-> @.changed \/ (@.runs > 0 /\ new # pg) ]]
      [] s.kind = "retrieve" /\ pg.consoleWrappers > 0 ->
            [h EXCEPT !.logged[s.key] =
                Some([id |-> s.id, message |-> RetrieveMessage(pg, s.name, s.key, t)])]
      [] s.kind = "search" ->
            [h EXCEPT !.search =
                [ id     |-> s.id,
                  key    |-> s.key,
                  wrote  |-> new.mcpLastSearchResult,
                  logged |-> h.logged[s.key],
                  tagged |-> \E i \in DOMAIN OrEmpty(pg.mcpConsoleMessages) :
                                \/ Includes(Get(pg.mcpConsoleMessages)[i].message,
                                            SuccessTag(s.key))
                                \/ Includes(Get(pg.mcpConsoleMessages)[i].message,
                                            ErrorTag(s.key)) ]]
      [] s.kind = "buffer" ->
            [h EXCEPT !.dump = [id |-> s.id, search |-> h.search]]
      [] s.kind = "wrapped" ->
            [h EXCEPT !.wrapped = Append(@, s.code)]
      [] OTHER -> h

\* The scripts the pending script at the head of the queue is taken from.
NextScript(q) == Head(q)
Remaining(q) == Tail(q)

\* The page's event loop runs the next pending script.
PageRun ==
    /\ live
    /\ queue # <<>>
    /\ \E t \in Readings :
         LET s == NextScript(queue)
             new == Execute(page, s, t)
         IN /\ WithinBounds(new)
            /\ page' = new
            /\ now' = t
            /\ hist' = Recorded(hist, s, page, new, t)
    /\ queue' = Remaining(queue)
    /\ UNCHANGED <<live, task, issued>>

\* Console calls the page's own code makes, one per level.
PageCalls ==
    { [level |-> "log",   args |-> <<JsString(<<"ready">>)>>],
      [level |-> "info",  args |-> <<JsString(<<"n =">>), JsNumber(3)>>],
      [level |-> "debug", args |-> <<JsObject(<<"{", "\"k\"", ":", "\"v\"", "}">>)>>],
      [level |-> "warn",  args |-> <<JsString(<<"slow">>), JsUndefined>>],
      [level |-> "error", args |-> <<JsString(<<"failed", ":", " x">>)>>] }

ConsoleCalled(call) ==
    /\ live
    /\ \E t \in Readings :
         LET new == ConsoleCall(page, call.level, call.args, t)
         IN /\ WithinBounds(new)
            /\ page' = new
            /\ now' = t
    /\ UNCHANGED <<queue, live, task, issued, hist>>

\* The 'error' events the engine may dispatch: a script error with its
\* place and Error object, and a cross-origin one without.
ErrorEvents ==
    { [message |-> <<"Uncaught Error", ":", " boom">>, filename |-> Some("app.js"),
       lineno |-> Some(10), colno |-> Some(5),
       stack |-> Some("Error: boom at app.js:10:5")],
      [message |-> <<"Script error.">>, filename |-> Some(""),
       lineno |-> Some(0), colno |-> Some(0), stack |-> Null] }

\* The reasons of the 'unhandledrejection' events: an Error, a string.
Reasons ==
    { [str |-> <<"Error", ":", " nope">>, stack |-> Some("Error: nope at app.js:3:1")],
      [str |-> <<"timeout">>, stack |-> Null] }

\* The history after an event was dispatched on page pg, giving page new.
Dispatched(h, event, pg, new) ==
    IF pg.mcpEventConsoleCapture
    THEN [h EXCEPT !.events = Append(@, event),
                   !.disturbed = @ \/ new.consoleBuffer # pg.consoleBuffer
                                   \/ new.mcpConsoleMessages # pg.mcpConsoleMessages]
    ELSE h

\* An uncaught script error on the page.
UncaughtError(event) ==
    /\ live
    /\ \E t \in Readings :
         LET new == DispatchError(page, page.errorListeners, event, t)
         IN /\ WithinBounds(new)
            /\ page' = new
            /\ now' = t
            /\ hist' = Dispatched(hist, [kind |-> "error", of |-> event], page, new)
    /\ UNCHANGED <<queue, live, task, issued>>

\* An unhandled promise rejection on the page.
UnhandledRejection(reason) ==
    /\ live
    /\ \E t \in Readings :
         LET new == DispatchRejection(page, page.rejectionListeners, reason, t)
         IN /\ WithinBounds(new)
            /\ page' = new
            /\ now' = t
            /\ hist' = Dispatched(hist, [kind |-> "rejection", of |-> reason], page, new)
    /\ UNCHANGED <<queue, live, task, issued>>

\* The page's code calls window.__clearConsoleBuffer().
ClearConsoleBuffer ==
    /\ live
    /\ page.accessors
    /\ page' = ClearConsoleBufferFn(page)
    /\ hist' = [hist EXCEPT !.cleared = TRUE]
    /\ UNCHANGED <<queue, live, task, issued, now>>

\* The page's code calls window.__getConsoleBuffer(): it reads, and writes
\* nothing.
GetConsoleBuffer ==
    /\ live
    /\ page.accessors
    /\ GetConsoleBufferFn(page) = OrEmpty(page.consoleBuffer)
    /\ UNCHANGED vars

\* The user closes the window: the host drops it and its page stops.
CloseWindow ==
    /\ live
    /\ live' = FALSE
    /\ UNCHANGED <<page, queue, task, issued, hist, now>>

(***************************************************************************)
(* Specifications.                                                         *)
(***************************************************************************)
\* No handler is between its first and its last statement.
Quiet == \A r \in RequestIds : task[r].pc \in {"idle", "done"}

\* One operator, one request at a time: the next is issued after the
\* response to the last.
Issue(op, payloads) ==
    /\ Quiet
    /\ issued < MaxRequests
    /\ \E p \in payloads : Submit(op, p)

\* The bridge with its five operations.
Next ==
    \/ Issue("setup_console_capture",
             {BadPayload} \cup GoodPayloads("setup_console_capture", AnyLabel, {}, {}))
    \/ Issue("get_js_result",
             {BadPayload} \cup GoodPayloads("get_js_result", AnyLabel, {Undefined}, {}))
    \/ Issue("execute_with_console",
             {BadPayload} \cup GoodPayloads("execute_with_console", AnyLabel, {}, {"return 1+1"}))
    \/ Issue("get_console_buffer",
             {BadPayload} \cup GoodPayloads("get_console_buffer", AnyLabel, {}, {}))
    \/ Issue("direct_eval",
             {BadPayload} \cup GoodPayloads("direct_eval", AnyLabel, {}, Codes))
    \/ \E r \in RequestIds :
          \/ ParsePayload(r)
          \/ GetWebviewWindow(r)
          \/ EvalCapture(r)
          \/ EvalRetrieve(r)
          \/ Sleep100(r)
          \/ EvalSearch(r)
          \/ Sleep50(r)
          \/ EvalGetResult(r)
          \/ EvalBuffer(r)
          \/ SleepBuffer(r)
          \/ SetupLookup(r)
          \/ SetupEval(r)
          \/ EvalCode(r)
          \/ EvalWrapped(r)
    \/ PageRun
    \/ CloseWindow

Spec == Init /\ [][Next]_vars

\* The shim under the page's own console calls: setup requests, and a page
\* that logs at every level and may call the clear accessor.
NextShim ==
    \/ Issue("setup_console_capture",
             GoodPayloads("setup_console_capture", {Undefined}, {}, {}))
    \/ \E r \in RequestIds :
          \/ ParsePayload(r)
          \/ GetWebviewWindow(r)
          \/ EvalCapture(r)
    \/ PageRun
    \/ \E call \in PageCalls : ConsoleCalled(call)
    \/ ClearConsoleBuffer

SpecShim == Init /\ [][NextShim]_vars

\* The shim's listeners: setup requests, and a page whose scripts fail.
NextErrors ==
    \/ Issue("setup_console_capture",
             GoodPayloads("setup_console_capture", {Undefined}, {}, {}))
    \/ \E r \in RequestIds :
          \/ ParsePayload(r)
          \/ GetWebviewWindow(r)
          \/ EvalCapture(r)
    \/ PageRun
    \/ \E event \in ErrorEvents : UncaughtError(event)
    \/ \E reason \in Reasons : UnhandledRejection(reason)

SpecErrors == Init /\ [][NextErrors]_vars

\* One operator retrieving values: setup, get-js-result and
\* get-console-buffer requests on the default window, one at a time.
IssueRetrieval(op, payloads) ==
    /\ Quiet
    /\ issued < MaxRetrievals
    /\ \E p \in payloads : Submit(op, p)

NextRetrieve ==
    \/ IssueRetrieval("setup_console_capture",
                      GoodPayloads("setup_console_capture", {Undefined}, {}, {}))
    \/ IssueRetrieval("get_js_result",
                      GoodPayloads("get_js_result", {Undefined}, NamedGlobals, {}))
    \/ IssueRetrieval("get_console_buffer",
                      GoodPayloads("get_console_buffer", {Undefined}, {}, {}))
    \/ \E r \in RequestIds :
          \/ ParsePayload(r)
          \/ GetWebviewWindow(r)
          \/ EvalCapture(r)
          \/ EvalRetrieve(r)
          \/ Sleep100(r)
          \/ EvalSearch(r)
          \/ Sleep50(r)
          \/ EvalGetResult(r)
          \/ EvalBuffer(r)
          \/ SleepBuffer(r)
    \/ PageRun

SpecRetrieve == Init /\ [][NextRetrieve]_vars

\* Everything that touches the console buffers: setup, get-js-result and
\* get-console-buffer requests, a console call of the page, and the two
\* accessors.
NextBuffer ==
    \/ Issue("setup_console_capture",
             GoodPayloads("setup_console_capture", {Undefined}, {}, {}))
    \/ Issue("get_js_result",
             GoodPayloads("get_js_result", {Undefined}, {Undefined}, {}))
    \/ Issue("get_console_buffer",
             GoodPayloads("get_console_buffer", {Undefined}, {}, {}))
    \/ \E r \in RequestIds :
          \/ ParsePayload(r)
          \/ GetWebviewWindow(r)
          \/ EvalCapture(r)
          \/ EvalRetrieve(r)
          \/ Sleep100(r)
          \/ EvalSearch(r)
          \/ Sleep50(r)
          \/ EvalGetResult(r)
          \/ EvalBuffer(r)
          \/ SleepBuffer(r)
    \/ PageRun
    \/ \E call \in {c \in PageCalls : c.level = "warn"} : ConsoleCalled(call)
    \/ ClearConsoleBuffer
    \/ GetConsoleBuffer

SpecBuffer == Init /\ [][NextBuffer]_vars

\* Execute-with-console and direct eval on the default window, with the
\* page running the injected scripts in order.
NextExecute ==
    \/ Issue("execute_with_console",
             GoodPayloads("execute_with_console", {Undefined}, {}, Codes))
    \/ Issue("direct_eval", GoodPayloads("direct_eval", {Undefined}, {}, {"return 1+1"}))
    \/ \E r \in RequestIds :
          \/ ParsePayload(r)
          \/ GetWebviewWindow(r)
          \/ SetupLookup(r)
          \/ SetupEval(r)
          \/ EvalCode(r)
          \/ EvalWrapped(r)
    \/ PageRun

SpecExecute == Init /\ [][NextExecute]_vars

\* Requests in progress.
InFlight == {r \in RequestIds : task[r].pc \notin {"idle", "done"}}

\* A second client that does not wait for the first: once in a session a
\* get-js-result request is issued while another is in progress; the others
\* are issued when the page has caught up with the requests before.
IssueConcurrent(op, payloads) ==
    /\ Cardinality(InFlight) < 2
    /\ \A r \in InFlight : task[r].op = "get_js_result"
    /\ IF InFlight # {} THEN hist.overlapped = {}
       ELSE \A i \in DOMAIN queue : queue[i].kind = "capture"
    /\ issued < MaxRetrievals
    /\ \E p \in payloads : Submit(op, p)

\* The native side of the retrieval and dump handlers: one step of request
\* r's handler. The handlers run as tasks of the async runtime and block only
\* in tokio::time::sleep, so every enabled step is eventually taken.
Handler(r) ==
    \/ ParsePayload(r)
    \/ GetWebviewWindow(r)
    \/ EvalCapture(r)
    \/ EvalRetrieve(r)
    \/ Sleep100(r)
    \/ EvalSearch(r)
    \/ Sleep50(r)
    \/ EvalGetResult(r)
    \/ EvalBuffer(r)
    \/ SleepBuffer(r)

\* Setup, retrieval and dump on the default window. The page runs pending
\* scripts when it gets to them, or never: nothing schedules it.
NextNative ==
    \/ Issue("setup_console_capture", GoodPayloads("setup_console_capture", {Undefined}, {}, {}))
    \/ Issue("get_js_result", GoodPayloads("get_js_result", {Undefined}, {Undefined}, {}))
    \/ Issue("get_console_buffer", GoodPayloads("get_console_buffer", {Undefined}, {}, {}))
    \/ \E r \in RequestIds : Handler(r)
    \/ PageRun

SpecNative ==
    /\ Init
    /\ [][NextNative]_vars
    /\ \A r \in RequestIds : WF_vars(Handler(r))

\* Retrieval of the default global on the default window, with two of the
\* retrievals overlapping, in a session that may begin with a setup request.
NextRace ==
    \/ /\ issued = 0
       /\ IssueRetrieval("setup_console_capture",
                         GoodPayloads("setup_console_capture", {Undefined}, {}, {}))
    \/ IssueConcurrent("get_js_result",
                       GoodPayloads("get_js_result", {Undefined}, {Undefined}, {}))
    \/ \E r \in RequestIds :
          \/ ParsePayload(r)
          \/ GetWebviewWindow(r)
          \/ EvalCapture(r)
          \/ EvalRetrieve(r)
          \/ Sleep100(r)
          \/ EvalSearch(r)
          \/ Sleep50(r)
          \/ EvalGetResult(r)
    \/ PageRun

SpecRace == Init /\ [][NextRace]_vars

\* As NextRace, with requests that ask for the shim's mirror buffer itself.
NextNested ==
    \/ /\ issued = 0
       /\ IssueRetrieval("setup_console_capture",
                         GoodPayloads("setup_console_capture", {Undefined}, {}, {}))
    \/ IssueConcurrent("get_js_result",
                       GoodPayloads("get_js_result", {Undefined},
                                    {Undefined, Some("__mcpConsoleMessages")}, {}))
    \/ \E r \in RequestIds :
          \/ ParsePayload(r)
          \/ GetWebviewWindow(r)
          \/ EvalCapture(r)
          \/ EvalRetrieve(r)
          \/ Sleep100(r)
          \/ EvalSearch(r)
          \/ Sleep50(r)
          \/ EvalGetResult(r)
    \/ PageRun

SpecNested == Init /\ [][NextNested]_vars

\* Retrieval of the default global and dump on the default window, with two
\* of the retrievals overlapping, in a session that may begin with a setup
\* request.
NextOverwrite ==
    \/ /\ issued = 0
       /\ IssueRetrieval("setup_console_capture",
                         GoodPayloads("setup_console_capture", {Undefined}, {}, {}))
    \/ IssueConcurrent("get_js_result",
                       GoodPayloads("get_js_result", {Undefined}, {Undefined}, {}))
    \/ IssueRetrieval("get_console_buffer",
                      GoodPayloads("get_console_buffer", {Undefined}, {}, {}))
    \/ \E r \in RequestIds :
          \/ ParsePayload(r)
          \/ GetWebviewWindow(r)
          \/ EvalCapture(r)
          \/ EvalRetrieve(r)
          \/ Sleep100(r)
          \/ EvalSearch(r)
          \/ Sleep50(r)
          \/ EvalGetResult(r)
          \/ EvalBuffer(r)
          \/ SleepBuffer(r)
    \/ PageRun

SpecOverwrite == Init /\ [][NextOverwrite]_vars

\* Setup, retrieval and dump on the default window of a page that raises
\* script errors of its own.
NextDump ==
    \/ Issue("setup_console_capture", GoodPayloads("setup_console_capture", {Undefined}, {}, {}))
    \/ Issue("get_js_result", GoodPayloads("get_js_result", {Undefined}, {Undefined}, {}))
    \/ Issue("get_console_buffer", GoodPayloads("get_console_buffer", {Undefined}, {}, {}))
    \/ \E r \in RequestIds : Handler(r)
    \/ PageRun
    \/ \E event \in {e \in ErrorEvents : e.stack = Null} : UncaughtError(event)

SpecDump == Init /\ [][NextDump]_vars

(***************************************************************************)
(* Properties of the native handlers.                                      *)
(***************************************************************************)
Begun == {r \in RequestIds : task[r].pc # "idle"}
Done == {r \in RequestIds : task[r].pc = "done"}
KindsOf(evals) == [i \in DOMAIN evals |-> evals[i].kind]

\* C5 -- No injection without validation: in each of the five handlers a
\* request whose payload does not parse fails with the parse error before any
\* window lookup, a request whose window_label (default "main") is not the
\* label of a live window at a lookup fails with the window-not-found error
\* for that label, and in both cases the request has made no window.eval call.
NoInjectionWithoutValidation ==
    \A r \in Begun :
        LET tk == task[r] IN
        /\ ~tk.payload.valid =>
              /\ tk.pc \in {"parse", "done"}
              /\ tk.lookups = <<>>
              /\ tk.evals = <<>>
              /\ tk.pc = "done" => tk.response = Some(InvalidRequest(tk.op))
        /\ (\E i \in DOMAIN tk.lookups : ~tk.lookups[i]) =>
              /\ tk.pc = "done"
              /\ tk.response = Some(WindowNotFound(WindowLabel(tk.payload)))
              /\ tk.evals = <<>>
        /\ (/\ tk.payload.valid
            /\ WindowLabel(tk.payload) # "main"
            /\ tk.pc \notin {"parse", "lookup"}) =>
              /\ tk.lookups = <<FALSE>>
              /\ tk.evals = <<>>

\* Every operation has been refused once for its payload or for its window
\* while scripts of another request were accepted: here a direct-eval to a
\* closed "main" after an accepted setup script.
NoInjectionWithoutValidationWitness ==
    \E r \in Done :
        /\ task[r].op = "direct_eval"
        /\ WindowLabel(task[r].payload) = "main"
        /\ task[r].lookups = <<FALSE>>
        /\ task[r].evals = <<>>
        /\ ~live
        /\ page.mcpEventConsoleCapture

\* C6 -- Execute-with-console aborts on setup failure: when the nested setup
\* call fails (its window lookup or its window.eval), the request is over, its
\* outcome is the setup call's error, and request.code was never injected.
ExecuteAbortsOnSetupFailure ==
    \A r \in Begun :
        LET tk == task[r] IN
        (/\ tk.op = "execute_with_console"
         /\ tk.setup_result # Undefined
         /\ ~Succeeded(Get(tk.setup_result))) =>
              /\ tk.pc = "done"
              /\ tk.response = tk.setup_result
              /\ \A i \in DOMAIN tk.evals : tk.evals[i].kind # "code"
              /\ \A i \in DOMAIN queue : ~(queue[i].kind = "code" /\ queue[i].id = tk.id)

\* The nested setup call failed at window.eval, after both lookups found the
\* window.
ExecuteAbortsOnSetupFailureWitness ==
    \E r \in Done :
        /\ task[r].op = "execute_with_console"
        /\ task[r].lookups = <<TRUE, TRUE>>
        /\ task[r].evals = <<[kind |-> "capture", ok |-> FALSE]>>
        /\ task[r].setup_result # Undefined
        /\ Get(task[r].setup_result).kind = "Err"

\* C7 -- Direct-eval's outcome depends only on the host call: when the window
\* was found, the handler returns a response value, never an error; it is
\* {success: true, result: the static message, error: null} when window.eval
\* returned Ok, whatever the snippet did or will do on the page, and
\* {success: false, result: null, error: "Eval error: ..."} exactly when
\* window.eval returned Err.
DirectEvalOutcomeFollowsHostCall ==
    \A r \in Done :
        LET tk == task[r]
            resp == Get(tk.response)
        IN (tk.op = "direct_eval" /\ tk.lookups = <<TRUE>>) =>
              /\ resp.kind = "Ok"
              /\ Len(tk.evals) = 1
              /\ tk.evals[1].kind = "wrapped"
              /\ tk.evals[1].ok =>
                    resp = DirectEvalResponse(TRUE, Some(DirectEvalStored), Null)
              /\ ~tk.evals[1].ok =>
                    /\ resp.success = FALSE
                    /\ resp.result = Null
                    /\ resp.error # Null
                    /\ Head(Get(resp.error)) = "Eval error: "
                    /\ Tail(Get(resp.error)) \in {<<e>> : e \in HostErrors}

\* The snippet threw on the page, and the response to its request reports
\* success.
DirectEvalOutcomeFollowsHostCallWitness ==
    \E r \in Done :
        /\ task[r].op = "direct_eval"
        /\ task[r].evals = <<[kind |-> "wrapped", ok |-> TRUE]>>
        /\ CodeOutcome(Get(task[r].payload.code)).threw
        /\ Get(task[r].response).success
        /\ hist.wrapped # <<>>
        /\ page.mcpLastResult # Undefined
        /\ ~Get(page.mcpLastResult).success

\* What a direct-eval wrapper leaves in __mcpLastResult for a snippet.
OutcomeOf(code) ==
    LET out == CodeOutcome(code)
    IN IF out.threw
       THEN [success |-> FALSE, error |-> out.message, stack |-> out.stack]
       ELSE [success |-> TRUE, value |-> out.value, type |-> out.value.type,
             stringValue |-> out.value.str]

Phases(op) ==
    CASE op = "setup_console_capture" -> <<"capture">>
      [] op = "get_js_result"         -> <<"retrieve", "search", "get_result">>
      [] op = "execute_with_console"  -> <<"capture", "code">>
      [] op = "get_console_buffer"    -> <<"buffer">>
      [] op = "direct_eval"           -> <<"wrapped">>

\* C9 -- No retries: the window.eval calls a request has made are the first
\* ones of its handler, each made once and in the handler's order, and a call
\* that returned Err is the request's last: the request is over with an error
\* outcome and no later phase is injected.
NoRetries ==
    \A r \in Begun :
        LET tk == task[r]
            n == Len(tk.evals)
        IN /\ n <= Len(Phases(tk.op))
           /\ KindsOf(tk.evals) = SubSeq(Phases(tk.op), 1, n)
           /\ \A i \in 1..n :
                 ~tk.evals[i].ok =>
                     /\ i = n
                     /\ tk.pc = "done"
                     /\ ~Succeeded(Get(tk.response))
                     /\ Get(tk.response).error # Null
           /\ Cardinality({i \in DOMAIN queue : queue[i].id = tk.id})
                 <= Cardinality({i \in 1..n : tk.evals[i].ok})

\* A get-js-result request whose tag script was accepted and whose search
\* script was refused.
NoRetriesWitness ==
    \E r \in Done :
        /\ task[r].op = "get_js_result"
        /\ task[r].evals = <<[kind |-> "retrieve", ok |-> TRUE],
                             [kind |-> "search", ok |-> FALSE]>>
        /\ Get(task[r].response).kind = "Err"

(***************************************************************************)
(* Properties of the page-side scripts.                                    *)
(***************************************************************************)
\* C1 -- Setup is idempotent per page: once the shim script has run, however
\* often it runs again, each console method has one wrapper and each event
\* one listener, __consoleSessionId is the id the first run assigned, no run
\* after the first changed any page state, and every run after the first
\* returned already_setup.
SetupIdempotent ==
    IF hist.setup.runs = 0
    THEN /\ ~page.mcpEventConsoleCapture
         /\ page.consoleWrappers = 0
         /\ page.consoleSessionId = Undefined
    ELSE /\ page.mcpEventConsoleCapture
         /\ page.consoleWrappers = 1
         /\ page.errorListeners = 1
         /\ page.rejectionListeners = 1
         /\ hist.setup.session # Undefined
         /\ page.consoleSessionId = hist.setup.session
         /\ ~hist.setup.changed
         /\ hist.setup.runs = 1 => hist.setup.returned = "setup_complete"
         /\ hist.setup.runs > 1 => hist.setup.returned = "already_setup"

\* The shim script ran a second time on a page whose buffers held more than
\* the shim's own first entry.
SetupIdempotentWitness ==
    /\ hist.setup.runs = 2
    /\ hist.setup.returned = "already_setup"
    /\ Len(OrEmpty(page.mcpConsoleMessages)) >= 2
    /\ queue = <<>>

\* C2 -- Mirrored writes: once the shim is installed, after any sequence of
\* console calls at the five levels, and as long as the page has not called
\* the clear accessor, __consoleBuffer and __mcpConsoleMessages have the same
\* length and the same entries in the same order.
MirroredWrites ==
    (page.mcpEventConsoleCapture /\ ~hist.cleared) =>
        /\ page.consoleBuffer # Undefined
        /\ page.mcpConsoleMessages # Undefined
        /\ Len(Get(page.consoleBuffer)) = Len(Get(page.mcpConsoleMessages))
        /\ \A i \in DOMAIN Get(page.consoleBuffer) :
              Get(page.consoleBuffer)[i] = Get(page.mcpConsoleMessages)[i]

\* Both buffers hold MaxBuf entries of at least three different levels.
MirroredWritesWitness ==
    /\ page.mcpEventConsoleCapture
    /\ ~hist.cleared
    /\ Len(Get(page.consoleBuffer)) = MaxBuf
    /\ Len(Get(page.mcpConsoleMessages)) = MaxBuf
    /\ Cardinality({Get(page.consoleBuffer)[i].level :
                       i \in DOMAIN Get(page.consoleBuffer)}) >= 3

\* The text after the first colon of a message; the message when it has none.
AfterFirstColon(message) ==
    IF \E i \in DOMAIN message : message[i] = ":"
    THEN LET first == CHOOSE i \in DOMAIN message :
                         /\ message[i] = ":"
                         /\ \A j \in 1..(i - 1) : message[j] # ":"
         IN SubSeq(message, first + 1, Len(message))
    ELSE message

\* C3 -- Correlation round-trip: when the search script of a get-js-result
\* request with key K has run after the tag script of that request, and that
\* tag script's console.log was captured, __mcpLastSearchResult was written
\* with found = true and data = everything after the first colon of the
\* message tagged MCP_RETRIEVE_SUCCESS_K: or MCP_RETRIEVE_ERROR_K: which that
\* tag script logged; it was written with found = false and the error
\* 'Message not found in buffer' only when no entry of __mcpConsoleMessages
\* carried either tag.
CorrelationRoundTrip ==
    hist.search.id # 0 =>
        LET wrote == Get(hist.search.wrote)
            K == hist.search.key
        IN /\ hist.search.wrote # Undefined
           /\ (hist.search.logged # Undefined /\ Get(hist.search.logged).id = hist.search.id) =>
                 LET message == Get(hist.search.logged).message
                 IN /\ wrote.found
                    /\ \/ SubSeq(message, 1, 2) = <<"MCP_RETRIEVE_SUCCESS_" \o K, ":">>
                       \/ SubSeq(message, 1, 2) = <<"MCP_RETRIEVE_ERROR_" \o K, ":">>
                    /\ wrote.data = AfterFirstColon(message)
                    /\ Head(wrote.data) = "{"
           /\ ~wrote.found =>
                 /\ wrote.error = <<"Message not found in buffer">>
                 /\ ~hist.search.tagged
                 /\ hist.search.logged = Undefined
           /\ wrote.found => hist.search.tagged

\* The search of a request that asked for a path under a missing global found
\* the record tagged MCP_RETRIEVE_ERROR_K.
CorrelationRoundTripWitness ==
    /\ hist.search.id # 0
    /\ hist.search.logged # Undefined
    /\ Get(hist.search.logged).id = hist.search.id
    /\ Head(Get(hist.search.logged).message) = "MCP_RETRIEVE_ERROR_" \o hist.search.key
    /\ Get(hist.search.wrote).found
    /\ page.mcpLastSearchResult = hist.search.wrote

\* C4 -- Serial retrieval: when a get-console-buffer request was issued right
\* after the response to a successful get-js-result request with key K, with
\* no request in between, and the page has run its dump script, then
\* __mcpBufferData.lastSearchResult is the Search Result the search script of
\* that get-js-result request wrote: not null, and not an earlier search's.
SerialRetrieval ==
    (hist.serial.dump # 0 /\ hist.dump.id = hist.serial.dump) =>
        /\ page.mcpBufferData # Undefined
        /\ Get(page.mcpBufferData).lastSearchResult # Null
        /\ hist.dump.search.id = hist.serial.search
        /\ Get(page.mcpBufferData).lastSearchResult = hist.dump.search.wrote

\* After a setup request, the dump followed a search that found its record.
SerialRetrievalWitness ==
    /\ hist.serial.dump = 3
    /\ hist.dump.id = 3
    /\ hist.dump.search.id = 2
    /\ Get(hist.dump.search.wrote).found
    /\ Get(page.mcpBufferData).lastSearchResult = page.mcpLastSearchResult

IsPrefix(a, b) == Len(a) <= Len(b) /\ SubSeq(b, 1, Len(a)) = a

\* C11, as claimed -- Console buffers are append-only: every step of the
\* page (wrapped console calls, the fetch-all and clear accessors, repeated
\* setup, tag, search and dump scripts) leaves the previous contents of
\* __consoleBuffer as a prefix of the new contents.
ConsoleBufferAppendOnly ==
    [][IsPrefix(OrEmpty(page.consoleBuffer), OrEmpty(page'.consoleBuffer))]_vars

\* C11, amended -- every step of the page leaves the previous contents of
\* __consoleBuffer as a prefix of the new contents, except a call of the
\* clear accessor, which empties __consoleBuffer and changes nothing else;
\* __mcpConsoleMessages is append-only under every step, the clear accessor
\* included.
ConsoleBufferAppendOnlyUntilCleared ==
    [][/\ \/ IsPrefix(OrEmpty(page.consoleBuffer), OrEmpty(page'.consoleBuffer))
          \/ /\ page.accessors
             /\ page' = [page EXCEPT !.consoleBuffer = Some(<<>>)]
       /\ IsPrefix(OrEmpty(page.mcpConsoleMessages), OrEmpty(page'.mcpConsoleMessages))
      ]_vars

\* The clear accessor was called on a buffer that held entries, and a later
\* console call was appended to both buffers.
ConsoleBufferAppendOnlyUntilClearedWitness ==
    /\ hist.cleared
    /\ Len(OrEmpty(page.consoleBuffer)) >= 1
    /\ Len(OrEmpty(page.mcpConsoleMessages)) > Len(OrEmpty(page.consoleBuffer))

(***************************************************************************)
(* Properties of get-js-result's protocol.                                 *)
(***************************************************************************)
AcceptedEval(kind) == [kind |-> kind, ok |-> TRUE]

\* What a step from task a to task b of one get-js-result request r, with
\* the window's pending scripts going from q to q2, has to respect.
PhaseOrderStep(r, a, b, q, q2) ==
    /\ b.evals # a.evals =>
          LET call == b.evals[Len(b.evals)] IN
          /\ b.evals = Append(a.evals, call)
          /\ call.kind = "retrieve" => a.pc = "eval_retrieve" /\ a.evals = <<>>
          /\ call.kind = "search" =>
                /\ a.pc = "eval_search"
                /\ a.evals = <<AcceptedEval("retrieve")>>
          /\ call.kind = "get_result" =>
                /\ a.pc = "eval_get_result"
                /\ a.evals = <<AcceptedEval("retrieve"), AcceptedEval("search")>>
          /\ call.kind \in {"retrieve", "search", "get_result"}
          /\ IF call.ok
             THEN /\ Len(q2) = Len(q) + 1
                  /\ SubSeq(q2, 1, Len(q)) = q
                  /\ q2[Len(q2)].kind = call.kind
                  /\ q2[Len(q2)].id = r
                  /\ call.kind # "get_result" => q2[Len(q2)].key = b.key
             ELSE q2 = q
    /\ b.evals = a.evals => (q2 = q \/ q2 = Tail(q))
    \* the waits stand between the injections
    /\ (b.pc = "sleep_100" /\ a.pc # "sleep_100") => a.pc = "eval_retrieve"
    /\ (b.pc = "eval_search" /\ a.pc # "eval_search") => a.pc = "sleep_100"
    /\ (b.pc = "sleep_50" /\ a.pc # "sleep_50") => a.pc = "eval_search"
    /\ (b.pc = "eval_get_result" /\ a.pc # "eval_get_result") => a.pc = "sleep_50"
    \* one key, made before the tag injection
    /\ a.pc \in {"parse", "lookup", "eval_retrieve"} => a.key = ""
    /\ a.pc \notin {"parse", "lookup", "eval_retrieve"} => b.key = a.key
    /\ b.pc \in {"sleep_100", "eval_search", "sleep_50", "eval_get_result"} => b.key \in Keys

\* C12 -- Phase ordering of get-js-result: in every request the tag script
\* is injected first, the search script only after the tag injection was
\* accepted and the first wait has elapsed, the fetch script only after the
\* search injection was accepted and the second wait has elapsed; the key is
\* made once, before the tag injection, and the tag script and the search
\* script carry that key.
PhaseOrdering ==
    [][\A r \in RequestIds :
          (/\ task[r].op = "get_js_result"
           /\ task'[r].id = task[r].id) =>
              PhaseOrderStep(r, task[r], task'[r], queue, queue')]_vars

\* A request got its three scripts accepted before the page ran any of them:
\* the tag and the search script pending carry the request's key.
PhaseOrderingWitness ==
    \E r \in Done :
        /\ task[r].op = "get_js_result"
        /\ Len(task[r].evals) = 3
        /\ Len(queue) = 3
        /\ KindsOf(queue) = <<"retrieve", "search", "get_result">>
        /\ \A i \in 1..3 : queue[i].id = r
        /\ queue[1].key = task[r].key
        /\ queue[2].key = task[r].key
        /\ task[r].key \in Keys

AllAccepted(evals, kinds) ==
    /\ KindsOf(evals) = kinds
    /\ \A i \in DOMAIN evals : evals[i].ok

\* C13 -- The native response does not depend on page progress: a
\* get-js-result request ends whatever the page does, and when its three
\* injections were accepted its response is success = true with exactly the
\* pointer payload (message, variable_name, result_key, approach, next_step)
\* built from the request's own name and key, whether the page ran any of the
\* three scripts or not; a get-console-buffer request likewise ends after its
\* single wait with the fixed success response once its injection was accepted.
NativeResponseIndependentOfPage ==
    /\ [](\A r \in Done :
            /\ (task[r].op = "get_js_result"
                  /\ AllAccepted(task[r].evals, <<"retrieve", "search", "get_result">>))
               => /\ task[r].response
                       = Some(GetJsResultResponse(VariableName(task[r].payload), task[r].key))
                  /\ task[r].response[1].success
                  /\ task[r].response[1].error = Undefined
                  /\ task[r].response[1].data[1].result_key = task[r].key
                  /\ task[r].response[1].data[1].variable_name = DefaultVariableName
                  /\ task[r].response[1].data[1].approach = "console_buffer_search"
                  /\ DOMAIN task[r].response[1].data[1]
                       = {"message", "variable_name", "result_key", "approach", "next_step"}
            /\ (task[r].op = "get_console_buffer"
                  /\ AllAccepted(task[r].evals, <<"buffer">>))
               => /\ task[r].response = Some(BufferResponse(WindowLabel(task[r].payload)))
                  /\ task[r].response[1].success)
    /\ \A r \in RequestIds :
          (task[r].pc \notin {"idle", "done"}) ~> (task[r].pc = "done")

\* A get-js-result request answered with success while the page has run none
\* of its three scripts, and a dump answered while its script is pending.
NativeResponseIndependentOfPageWitness ==
    \E r \in Done :
        /\ task[r].op = "get_js_result"
        /\ task[r].response # Undefined
        /\ Succeeded(task[r].response[1])
        /\ Len(queue) >= 3
        /\ KindsOf(SubSeq(queue, Len(queue) - 2, Len(queue)))
             = <<"retrieve", "search", "get_result">>
        /\ \A i \in (Len(queue) - 2)..Len(queue) : queue[i].id = task[r].id
        /\ hist.search.id # task[r].id

\* The entries the shim's wrappers append for a snippet's console calls made
\* at time t in session `session`.
CapturedCalls(code, t, session) ==
    [i \in DOMAIN CodeCalls(code) |->
        [ level     |-> CodeCalls(code)[i].level,
          message   |-> JoinArgs(CodeCalls(code)[i].args),
          timestamp |-> ToISOString(t),
          sessionId |-> session ]]

\* C14 -- Capture before the caller's code: an execute-with-console request
\* injects the shim before the caller's code, so when the page runs scripts in
\* order the shim is installed by the time the caller's code runs (also when
\* it was never installed before this request), every console call the
\* caller's code makes is appended, in order, to both __consoleBuffer and
\* __mcpConsoleMessages, and running the caller's code leaves __mcpLastResult
\* as it was.
CaptureBeforeCallerCode ==
    /\ [](\A i \in DOMAIN queue :
            queue[i].kind = "code" =>
                \/ hist.setup.runs > 0
                \/ \E j \in 1..(i - 1) :
                      queue[j].kind = "capture" /\ queue[j].id = queue[i].id)
    /\ [][(queue # <<>> /\ queue' = Tail(queue) /\ Head(queue).kind = "code") =>
            LET new == CapturedCalls(Head(queue).code, now', page.consoleSessionId)
            IN /\ page.mcpEventConsoleCapture
               /\ hist.setup.runs > 0
               /\ page'.consoleBuffer = Some(OrEmpty(page.consoleBuffer) \o new)
               /\ page'.mcpConsoleMessages = Some(OrEmpty(page.mcpConsoleMessages) \o new)
               /\ page'.mcpLastResult = page.mcpLastResult]_vars

\* The first request ever made was an execute-with-console with a snippet that
\* warns; its shim and its code have run, both buffers hold the warning after
\* the shim's own start-up line, and no result slot was written.
CaptureBeforeCallerCodeWitness ==
    /\ hist.setup.runs = 1
    /\ issued = 1
    /\ task[1].op = "execute_with_console"
    /\ queue = <<>>
    /\ page.mcpLastResult = Undefined
    /\ Len(OrEmpty(page.consoleBuffer)) = 2
    /\ Get(page.consoleBuffer)[2].level = "warn"
    /\ Get(page.consoleBuffer)[2].message
         = JoinArgs(CodeCalls("console.warn('low', {a: 1}); return 'ok'")[1].args)
    /\ page.mcpConsoleMessages = page.consoleBuffer

PageFields == DOMAIN FreshPage

\* C15 -- The dump is a pure snapshot: running the dump script changes no page
\* global other than __mcpBufferData, and the record it stores there holds the
\* values __consoleBuffer, __mcpConsoleMessages, __mcpJSErrors (the empty list
\* for one that is unset) and __mcpLastSearchResult (null when unset) have at
\* that moment, with the three lengths of those lists.
DumpIsSnapshot ==
    [][(queue # <<>> /\ queue' = Tail(queue) /\ Head(queue).kind = "buffer") =>
         /\ \A f \in PageFields \ {"mcpBufferData"} : page'[f] = page[f]
         /\ page'.mcpBufferData # Undefined
         /\ LET data == Get(page'.mcpBufferData) IN
            /\ DOMAIN data = {"consoleBuffer", "mcpMessages", "jsErrors", "lastSearchResult",
                              "bufferLength", "mcpLength", "errorCount"}
            /\ data.consoleBuffer = (IF page.consoleBuffer = Undefined THEN <<>>
                                     ELSE Get(page.consoleBuffer))
            /\ data.mcpMessages = (IF page.mcpConsoleMessages = Undefined THEN <<>>
                                   ELSE Get(page.mcpConsoleMessages))
            /\ data.jsErrors = (IF page.mcpJSErrors = Undefined THEN <<>>
                                ELSE Get(page.mcpJSErrors))
            /\ data.lastSearchResult = (IF page.mcpLastSearchResult = Undefined THEN Null
                                        ELSE page.mcpLastSearchResult)
            /\ data.bufferLength = Len(data.consoleBuffer)
            /\ data.mcpLength = Len(data.mcpMessages)
            /\ data.errorCount = Len(data.jsErrors)]_vars

\* A dump ran on a page with captured lines and a recorded script error and no
\* search result; the globals still hold what the dump copied.
DumpIsSnapshotWitness ==
    /\ hist.dump.id # 0
    /\ page.mcpBufferData # Undefined
    /\ Get(page.mcpBufferData).bufferLength >= 1
    /\ Get(page.mcpBufferData).errorCount >= 1
    /\ Get(page.mcpBufferData).lastSearchResult = Null
    /\ Get(page.mcpBufferData).consoleBuffer = OrEmpty(page.consoleBuffer)
    /\ Get(page.mcpBufferData).jsErrors = OrEmpty(page.mcpJSErrors)
    /\ page.mcpLastSearchResult = Undefined

\* C16 -- Cross-request interference is reachable: two get-js-result requests
\* that run concurrently against one window can generate the same key, and
\* then the search script of one matches the message the tag script of the
\* other logged.  Whenever a search matched a message logged for another
\* request, the two requests had generated the same key, the message carries
\* the searching request's tag, and the search stored found = true with the
\* other request's record as its data.
CrossRequestInterference ==
    (/\ hist.search.id # 0
     /\ hist.search.logged # Undefined
     /\ Get(hist.search.logged).id # hist.search.id) =>
        LET other == Get(hist.search.logged)
            wrote == Get(hist.search.wrote)
        IN /\ hist.collided
           /\ hist.search.key \in hist.used
           /\ Head(other.message) \in {"MCP_RETRIEVE_SUCCESS_" \o hist.search.key,
                                       "MCP_RETRIEVE_ERROR_" \o hist.search.key}
           /\ wrote.found
           /\ wrote.data = AfterFirstColon(other.message)

\* Two requests overlapped and generated one key; the search of one ran after
\* the tag script of the other and stored the other's record.
CrossRequestInterferenceWitness ==
    /\ hist.search.id # 0
    /\ hist.search.logged # Undefined
    /\ Get(hist.search.logged).id # hist.search.id
    /\ {hist.search.id, Get(hist.search.logged).id} \subseteq hist.overlapped
    /\ Get(hist.search.wrote).found
    /\ Get(hist.search.wrote).data = AfterFirstColon(Get(hist.search.logged).message)
    /\ page.mcpLastSearchResult = hist.search.wrote

\* C17 -- The search result slot is overwritten by every search: each search
\* script the page runs writes __mcpLastSearchResult, with found = true and
\* the matched record or with found = false, stamped with the time it ran; so
\* the slot always holds what the search script that ran last wrote, and a
\* dump copies that result, whichever request the search belonged to.  After
\* two overlapping get-js-result requests A and B, a dump issued after A's
\* response can therefore hold the result of B's search.
SearchResultOverwritten ==
    /\ [](/\ hist.search.id # 0 =>
               /\ page.mcpLastSearchResult # Undefined
               /\ page.mcpLastSearchResult = hist.search.wrote
          /\ hist.dump.id # 0 =>
               /\ page.mcpBufferData # Undefined
               /\ Get(page.mcpBufferData).lastSearchResult = hist.dump.search.wrote)
    /\ [][(queue # <<>> /\ queue' = Tail(queue) /\ Head(queue).kind = "search") =>
            /\ page'.mcpLastSearchResult # Undefined
            /\ Get(page'.mcpLastSearchResult).found \in BOOLEAN
            /\ Get(page'.mcpLastSearchResult).found = (SearchHit(page, Head(queue).key) # 0)
            /\ Get(page'.mcpLastSearchResult).timestamp = ToISOString(now')
            /\ hist'.search.id = Head(queue).id
            /\ hist'.search.wrote = page'.mcpLastSearchResult]_vars

\* Requests A and B overlapped and both were answered; the search script of B
\* ran last, and the dump issued after A's response holds B's result.
SearchResultOverwrittenWitness ==
    /\ hist.dump.id # 0
    /\ hist.answered.dump = hist.dump.id
    /\ hist.dump.search.id # 0
    /\ hist.dump.search.id \in hist.overlapped
    /\ \E A \in hist.answered.requests :
          /\ A # hist.dump.search.id
          /\ A \in hist.overlapped
    /\ Get(page.mcpBufferData).lastSearchResult = hist.dump.search.wrote
    /\ hist.dump.search.wrote # Undefined

\* C18 -- Distinct keys isolate requests: when the keys the get-js-result
\* requests generated are pairwise distinct, a search script for key K that
\* stores found = true took its data from the message the tag script of the
\* request with key K logged, never from another request's tagged message.
DistinctKeysIsolate ==
    (/\ hist.search.id # 0
     /\ ~hist.collided
     /\ Get(hist.search.wrote).found) =>
        /\ hist.search.logged # Undefined
        /\ Get(hist.search.logged).id = hist.search.id
        /\ Get(hist.search.wrote).data = AfterFirstColon(Get(hist.search.logged).message)

\* C19 -- No spurious not-found under in-order execution: the page runs the
\* injected scripts in the order they were injected and is not reloaded, so
\* the tag script of a request runs before its search script; a tag script
\* that runs with the shim installed leaves a tagged entry in
\* __mcpConsoleMessages, no later step removes or changes an entry of that
\* list (the clear accessor empties __consoleBuffer only), and so the search
\* script of that request stores found = true, however the page's runs fall
\* relative to the handler's 100 ms and 50 ms waits.
NoSpuriousNotFound ==
    /\ [](\A i \in DOMAIN queue : \A j \in DOMAIN queue :
            (/\ queue[i].kind = "search"
             /\ queue[j].kind = "retrieve"
             /\ queue[j].id = queue[i].id) => j < i)
    /\ [][(/\ queue # <<>> /\ queue' = Tail(queue)
           /\ Head(queue).kind = "retrieve"
           /\ page.mcpEventConsoleCapture) =>
              /\ SearchHit(page', Head(queue).key) # 0
              /\ hist'.logged[Head(queue).key] # Undefined
              /\ Get(hist'.logged[Head(queue).key]).id = Head(queue).id]_vars
    /\ [][IsPrefix(OrEmpty(page.mcpConsoleMessages),
                    OrEmpty(page'.mcpConsoleMessages))]_vars
    /\ [][(/\ queue # <<>> /\ queue' = Tail(queue)
           /\ Head(queue).kind = "search"
           /\ hist.logged[Head(queue).key] # Undefined
           /\ Get(hist.logged[Head(queue).key]).id = Head(queue).id) =>
              /\ page'.mcpLastSearchResult # Undefined
              /\ Get(page'.mcpLastSearchResult).found]_vars

\* The request has been answered, the page ran its tag script with the shim
\* installed, the clear accessor emptied __consoleBuffer, and the search
\* still found the record.
NoSpuriousNotFoundWitness ==
    /\ hist.search.id # 0
    /\ hist.cleared
    /\ hist.search.logged # Undefined
    /\ Get(hist.search.logged).id = hist.search.id
    /\ Get(hist.search.wrote).found
    /\ page.consoleBuffer = Some(<<>>)
    /\ \E r \in Done : task[r].id = hist.search.id

====
